---------------------------- MODULE Spec2Model ----------------------------
(***************************************************************************)
(* Model of mbergin/invert: the fixed-weight Gray code generator           *)
(* (gray_generator_t), the joiner of two generators (gray_join_t) and the  *)
(* index bookkeeping of the Sherman-Morrison driver loop (eigen_sherman).  *)
(*                                                                         *)
(* The specifications of the module:                                       *)
(*   SpecGen      one gray_generator_t(size, pick), next() called forever  *)
(*   SpecJoin     one gray_join_t, next() called repeatedly                *)
(*   SpecSherman  one run of eigen_sherman                                 *)
(*   SpecComb     the initialiser of combinations_, read by combinations() *)
(*   SpecCtor     the constructor of gray_generator_t, any parameters      *)
(***************************************************************************)
EXTENDS Integers, Sequences, FiniteSets

VARIABLES
    gen,             \* SpecGen: the gray_generator_t object
    hist,            \* SpecGen: one record per next() call (constructor's included)
    join,            \* SpecJoin: the gray_join_t object
    outs,            \* SpecJoin: the values returned by next(), in order
    small_nexts,     \* SpecJoin: number of small_.next() invocations made by next()
    large_nexts,     \* SpecJoin: number of large_.next() invocations made by next()
    main,            \* SpecSherman: the matrix for all items, main(i,j) as main[<<i,j>>]
    gray_,           \* SpecSherman: the local gray_join_t `gray`
    selected,        \* SpecSherman: std::bitset<11> selected, as a number
    main_to_comb,    \* SpecSherman: std::array<int, 11>
    comb_to_main,    \* SpecSherman: std::array<int, 7>
    combination,     \* SpecSherman: combination(i,j), as combination[<<i,j>>]
    n,               \* SpecSherman: the loop counter of the update loop
    removed,         \* SpecSherman: local of the last step
    added,           \* SpecSherman: local of the last step
    comb_swap_index, \* SpecSherman: local of the last step
    success,         \* SpecSherman: the accumulated flag
    some_nonfinite,  \* SpecSherman: whether some step's inverse.allFinite() was false
    visited,         \* SpecSherman: the combinations `selected` has held so far
    pc,              \* SpecSherman: "loop" in the update loop, "returned" after return
    comb_call,       \* SpecComb: size, pick and what combinations() returned
    ctor             \* SpecCtor: size, pick and the outcome of the constructor

genVars  == <<gen, hist>>
joinVars == <<join, outs, small_nexts, large_nexts>>
shVars   == <<main, gray_, selected, main_to_comb, comb_to_main, combination, n,
              removed, added, comb_swap_index, success, some_nonfinite, visited, pc>>
argVars  == <<comb_call, ctor>>
vars     == <<genVars, joinVars, shVars, argVars>>

---------------------------------------------------------------------------
(* Bounds of the model *)

\* largest `size` a generator of SpecGen is constructed with
MaxSize == 5
\* SpecGen stops calling next() after MaxCycles * 2^size calls
\* (one forward+reverse cycle takes 2*C(size,pick) <= 2^size calls)
MaxCycles == 3
\* SpecJoin stops calling gray_join_t::next() after this many calls
MaxJoinCalls == 285
\* largest `size` SpecComb computes combinations() for (13! passes 2^32)
MaxCombSize == 14
\* largest `size` SpecCtor constructs with; `pick` goes one further
MaxCtorSize == 5

---------------------------------------------------------------------------
(* Program constants *)

small_size == 4
small_pick == 3
large_size == 7
large_pick == 4
\* const auto size = 11, also the bound of std::array<int, 11> main_to_comb
size == 11
\* the loop bound 35*4 of eigen_sherman
loop_bound == 140

---------------------------------------------------------------------------
(* Unsigned integer operators of C++, on naturals *)

RECURSIVE BitXor(_, _)
\* x ^ y
BitXor(x, y) ==
    IF x = 0 /\ y = 0 THEN 0
    ELSE (((x % 2) + (y % 2)) % 2) + 2 * BitXor(x \div 2, y \div 2)

RECURSIVE BitAndNot(_, _)
\* x & ~y
BitAndNot(x, y) ==
    IF x = 0 THEN 0
    ELSE (IF x % 2 = 1 /\ y % 2 = 0 THEN 1 ELSE 0) + 2 * BitAndNot(x \div 2, y \div 2)

RECURSIVE BitOr(_, _)
\* x | y
BitOr(x, y) ==
    IF x = 0 /\ y = 0 THEN 0
    ELSE (IF x % 2 = 1 \/ y % 2 = 1 THEN 1 ELSE 0) + 2 * BitOr(x \div 2, y \div 2)

\* x << k, for results below 2^31
ShiftLeft(x, k) == x * 2^k

\* bit i of x, as std::bitset's operator[] reads it
TestBit(x, i) == (x \div 2^i) % 2 = 1

---------------------------------------------------------------------------
(* gray.h: bit utilities *)

RECURSIVE count_bits(_)
\* for (; x; x >>= 1) count += x & 1;
count_bits(x) == IF x = 0 THEN 0 ELSE (x % 2) + count_bits(x \div 2)

RECURSIVE set_bit(_)
\* r = 0; while (x >>= 1) ++r;
set_bit(x) == IF x \div 2 = 0 THEN 0 ELSE 1 + set_bit(x \div 2)

---------------------------------------------------------------------------
(* uint32_t arithmetic.  A uint32_t value v is the pair <<v \div 2^16,      *)
(* v % 2^16>> of its 16-bit halves, as v itself can exceed the integers of  *)
(* the model checker.                                                       *)

Half == 2^16

\* the uint32_t with value x, for 0 <= x < 2^31
U32(x) == <<x \div Half, x % Half>>

\* a + b in uint32_t (modulo 2^32)
U32Add(a, b) ==
    <<(a[1] + b[1] + ((a[2] + b[2]) \div Half)) % Half, (a[2] + b[2]) % Half>>

\* a * x in uint32_t (modulo 2^32), for a multiplier 0 <= x < 2^15
U32MulSmall(a, x) ==
    <<(a[1] * x + ((a[2] * x) \div Half)) % Half, (a[2] * x) % Half>>

\* a * b in uint32_t (modulo 2^32): b taken byte by byte, high byte first
U32Mul(a, b) ==
    LET b3 == b[1] \div 2^8
        b2 == b[1] % 2^8
        b1 == b[2] \div 2^8
        b0 == b[2] % 2^8
        p3 == U32MulSmall(a, b3)
        p2 == U32Add(U32MulSmall(p3, 2^8), U32MulSmall(a, b2))
        p1 == U32Add(U32MulSmall(p2, 2^8), U32MulSmall(a, b1))
    IN  U32Add(U32MulSmall(p1, 2^8), U32MulSmall(a, b0))

\* a / d in uint32_t, for d # 0.  With d >= 2^31 the quotient is 0 or 1.
\* Otherwise a = 2*ah + a0 with ah < 2^31, and from ah = qh*d + rh the
\* quotient is 2*qh, plus 1 when 2*rh + a0 >= d.
U32Div(a, d) ==
    IF d[1] >= 2^15
    THEN IF a[1] > d[1] \/ (a[1] = d[1] /\ a[2] >= d[2]) THEN U32(1) ELSE U32(0)
    ELSE LET dv == d[1] * Half + d[2]
             ah == (a[1] \div 2) * Half + (a[1] % 2) * 2^15 + (a[2] \div 2)
             a0 == a[2] % 2
             qh == ah \div dv
             rh == ah % dv
             e  == IF rh + a0 >= dv - rh THEN 1 ELSE 0
         IN  U32Add(U32MulSmall(U32(qh), 2), U32(e))

\* the int a uint32_t converts to (two's complement)
ToInt(a) ==
    IF a[1] < 2^15 THEN a[1] * Half + a[2] ELSE (a[1] - Half) * Half + a[2]

---------------------------------------------------------------------------
(* gray.h: fact *)

RECURSIVE FactLoop(_, _)
\* for (; x > 1; --x) f *= x;
FactLoop(x, f) == IF x > 1 THEN FactLoop(x - 1, U32MulSmall(f, x)) ELSE f

\* fact(x) for the int argument x converted to uint32_t: f = 1, then the
\* loop.  From x = 34 on (34! holds the factor 2^32), and so for every
\* negative int, which converts to at least 2^31, the product is 0.
fact(x) == IF x < 0 \/ x >= 34 THEN <<0, 0>> ELSE FactLoop(x, U32(1))

\* the divisor of the initialiser of combinations_
comb_divisor(sz, pk) == U32Mul(fact(pk), fact(sz - pk))

\* combinations_(fact(size) / (fact(pick) * fact(size-pick))), then read by
\* combinations(); the divisor is not 0
combinations(sz, pk) == ToInt(U32Div(fact(sz), comb_divisor(sz, pk)))

---------------------------------------------------------------------------
(* gray.h: gray_generator_t *)

\* mutant of gray: the Gray transform left out
gray_binary(x) == x

\* Binary to Gray code: x ^ (x >> 1)
gray(x) == BitXor(x, x \div 2)

RECURSIVE NextReversed_noflip(_, _)
\* mutant of NextReversed: reaching 0 does not clear reversed_
NextReversed_noflip(g, next_index) ==
    LET ni == next_index - 1 IN
    IF ni = 0 THEN g
    ELSE IF count_bits(gray(ni)) = g.pick_ THEN [g EXCEPT !.index_ = ni]
    ELSE NextReversed_noflip(g, ni)

RECURSIVE NextReversed(_, _)
\* the reversed_ branch of next(): the loop from cursor next_index.  The
\* cursor is at least 1 on entry (index_ >= 1), so --next_index never wraps.
NextReversed(g, next_index) ==
    LET ni == next_index - 1 IN
    IF ni = 0 THEN [g EXCEPT !.reversed_ = FALSE]
    ELSE IF count_bits(gray(ni)) = g.pick_ THEN [g EXCEPT !.index_ = ni]
    ELSE NextReversed(g, ni)

RECURSIVE NextForward_storebound(_, _)
\* mutant of NextForward: the cursor is stored before the bound is tested
NextForward_storebound(g, next_index) ==
    LET ni == next_index + 1 IN
    IF ni = ShiftLeft(1, g.size_) THEN [g EXCEPT !.reversed_ = TRUE, !.index_ = ni]
    ELSE IF count_bits(gray(ni)) = g.pick_ THEN [g EXCEPT !.index_ = ni]
    ELSE NextForward_storebound(g, ni)

RECURSIVE NextForward(_, _)
\* the forward branch of next(): the loop from cursor next_index
NextForward(g, next_index) ==
    LET ni == next_index + 1 IN
    IF ni = ShiftLeft(1, g.size_) THEN [g EXCEPT !.reversed_ = TRUE]
    ELSE IF count_bits(gray(ni)) = g.pick_ THEN [g EXCEPT !.index_ = ni]
    ELSE NextForward(g, ni)

\* gray_generator_t::next(), as the object after the call
next(g) ==
    IF g.reversed_ THEN NextReversed(g, g.index_) ELSE NextForward(g, g.index_)

RECURSIVE ReversedMoves(_, _)
\* how many times the reversed_ branch of next() executes --next_index
ReversedMoves(g, next_index) ==
    LET ni == next_index - 1 IN
    IF ni = 0 THEN 1
    ELSE IF count_bits(gray(ni)) = g.pick_ THEN 1
    ELSE 1 + ReversedMoves(g, ni)

RECURSIVE ForwardMoves(_, _)
\* how many times the forward branch of next() executes ++next_index
ForwardMoves(g, next_index) ==
    LET ni == next_index + 1 IN
    IF ni = ShiftLeft(1, g.size_) THEN 1
    ELSE IF count_bits(gray(ni)) = g.pick_ THEN 1
    ELSE 1 + ForwardMoves(g, ni)

\* how many times a call of next() on g moves its cursor
moves(g) ==
    IF g.reversed_ THEN ReversedMoves(g, g.index_) ELSE ForwardMoves(g, g.index_)

\* mutant of value: the cursor is returned instead of its Gray code
value_cursor(g) == g.index_

\* gray_generator_t::value()
value(g) == gray(g.index_)

\* mutant of gray_generator_t: the cursor starts at 1 instead of 0
gray_generator_t_from1(sz, pk) ==
    next([size_ |-> sz, pick_ |-> pk, reversed_ |-> FALSE, index_ |-> 1,
          combinations_ |-> combinations(sz, pk)])

\* gray_generator_t::gray_generator_t(size, pick) with the division of the
\* initialiser of combinations_ giving c: the member initialisers, then
\* next()
construct(sz, pk, c) ==
    next([size_ |-> sz, pick_ |-> pk, reversed_ |-> FALSE, index_ |-> 0,
          combinations_ |-> c])

\* gray_generator_t::gray_generator_t(size, pick), for a divisor that is
\* not 0
gray_generator_t(sz, pk) == construct(sz, pk, combinations(sz, pk))

\* what one call of next() did, for hist: the value() read after it, the
\* direction after it, and whether the call stored a new cursor in index_
Reading(before, after) ==
    [value |-> value(after), reversed |-> after.reversed_,
     stored |-> after.index_ # before.index_]

InitGenObj ==
    \E sz \in 1..MaxSize : \E pk \in 1..sz :
        /\ gen = gray_generator_t(sz, pk)
        /\ hist = <<Reading([index_ |-> 0], gray_generator_t(sz, pk))>>

\* a caller invokes gen.next()
GenNext ==
    /\ Len(hist) < MaxCycles * 2^(gen.size_)
    /\ gen' = next(gen)
    /\ hist' = Append(hist, Reading(gen, next(gen)))
    /\ UNCHANGED <<joinVars, shVars, argVars>>

\* a caller invokes gen.next(), any number of times (hist is not kept)
GenNextForever ==
    /\ gen' = next(gen)
    /\ UNCHANGED <<hist, joinVars, shVars, argVars>>

\* SpecComb: the parameters, before combinations() is read
CombArgs(sz, pk) == [size |-> sz, pick |-> pk, called |-> FALSE, result |-> 0]

InitCombObj ==
    \E sz \in 1..MaxCombSize : \E pk \in 1..sz : comb_call = CombArgs(sz, pk)

\* a generator is constructed with (comb_call.size, comb_call.pick) and a caller reads
\* combinations(): the value the initialiser of combinations_ stored
ReadCombinations ==
    /\ ~comb_call.called
    /\ comb_call' = [comb_call EXCEPT !.called = TRUE,
                            !.result = combinations(comb_call.size, comb_call.pick)]
    /\ UNCHANGED <<genVars, joinVars, shVars, ctor>>

\* SpecCtor: the parameters, before the constructor runs
CtorArgs(sz, pk) == [size |-> sz, pick |-> pk, phase |-> "args", obj |-> <<>>]

InitCtorObj ==
    \E sz \in 0..MaxCtorSize : \E pk \in 0..(MaxCtorSize + 1) :
        ctor = CtorArgs(sz, pk)

\* what the unsigned division by 0 can leave in combinations_ where it does
\* not trap: 0 (AArch64 UDIV) or all bits set (RISC-V DIVU)
DivByZeroQuotients == {U32(0), <<Half - 1, Half - 1>>}

\* gray_generator_t g(ctor.size, ctor.pick): no parameter is checked.  The
\* divisor fact(pick) * fact(size-pick) is 0 exactly when pick > size, and
\* the division is then undefined: it traps (x86 DIV raises #DE, the
\* constructor never returns) or it yields some quotient and construction
\* goes on with next().
Construct ==
    /\ ctor.phase = "args"
    /\ IF comb_divisor(ctor.size, ctor.pick) = U32(0)
       THEN \/ ctor' = [ctor EXCEPT !.phase = "trapped"]
            \/ \E q \in DivByZeroQuotients :
                   ctor' = [ctor EXCEPT
                               !.phase = "constructed",
                               !.obj = construct(ctor.size, ctor.pick, ToInt(q))]
       ELSE ctor' = [ctor EXCEPT
                        !.phase = "constructed",
                        !.obj = gray_generator_t(ctor.size, ctor.pick)]
    /\ UNCHANGED <<genVars, joinVars, shVars, comb_call>>

---------------------------------------------------------------------------
(* gray.h: gray_join_t *)

\* mutant of gray_join_t: count_ starts at 1
gray_join_t_count1 ==
    [small_ |-> gray_generator_t(small_size, small_pick),
     large_ |-> gray_generator_t(large_size, large_pick),
     count_ |-> 1]

\* the member initialisers: small_{4, 3}, large_{7, 4}, count_ = 0
gray_join_t ==
    [small_ |-> gray_generator_t(small_size, small_pick),
     large_ |-> gray_generator_t(large_size, large_pick),
     count_ |-> 0]

\* mutant of small_advances: count_ is tested before it is incremented
small_advances_before(count, large) ==
    count - 1 > 0 /\ (count - 1) % large.combinations_ = 0

\* the condition under which gray_join_t::next() calls small_.next()
small_advances(count, large) == count > 0 /\ count % large.combinations_ = 0

\* mutant of join_ret: the small value is shifted by its own size
join_ret_smallshift(j) ==
    BitOr(ShiftLeft(value(j.small_), j.small_.size_), value(j.large_))

\* uint32_t ret = small_.value() << large_.size() | large_.value()
join_ret(j) ==
    BitOr(ShiftLeft(value(j.small_), j.large_.size_), value(j.large_))

\* gray_join_t::next(): the object after the call, the value returned, and
\* whether the call invoked small_.next()
join_next(j) ==
    LET ret   == join_ret(j)
        count == j.count_ + 1
        adv   == small_advances(count, j.large_)
    IN  [obj |-> [small_ |-> IF adv THEN next(j.small_) ELSE j.small_,
                  large_ |-> next(j.large_),
                  count_ |-> count],
         ret |-> ret,
         small_called |-> adv]

InitJoinObj ==
    /\ join = gray_join_t
    /\ outs = <<>>
    /\ small_nexts = 0
    /\ large_nexts = 0

\* a caller invokes join.next()
JoinNext ==
    /\ join.count_ < MaxJoinCalls
    /\ join' = join_next(join).obj
    /\ outs' = Append(outs, join_next(join).ret)
    /\ small_nexts' = small_nexts + (IF join_next(join).small_called THEN 1 ELSE 0)
    /\ large_nexts' = large_nexts + 1
    /\ UNCHANGED <<genVars, shVars, argVars>>

---------------------------------------------------------------------------
(* invert.cpp: eigen_sherman *)

\* const auto comb_size = select_small + select_large
comb_size == small_pick + large_pick

\* content of an array element or local that has not been assigned yet; it
\* lies outside every range the program uses, and no step reads it
Indeterminate == 0 - 2

RECURSIVE InitMaps(_, _, _, _)
\* the loop that builds main_to_comb and comb_to_main from `selected`
InitMaps(sel, main_index, comb_index, maps) ==
    IF main_index >= size THEN maps
    ELSE IF TestBit(sel, main_index)
         THEN InitMaps(sel, main_index + 1, comb_index + 1,
                       [m2c |-> [maps.m2c EXCEPT ![main_index] = comb_index],
                        c2m |-> [maps.c2m EXCEPT ![comb_index] = main_index]])
         ELSE InitMaps(sel, main_index + 1, comb_index,
                       [maps EXCEPT !.m2c[main_index] = -1])

\* combination.row(k) = new_row
SetRow(comb, k, new_row) ==
    [e \in DOMAIN comb |-> IF e[1] = k THEN new_row[e[2]] ELSE comb[e]]

\* mutant of SetCol: the column after k is assigned
SetCol_shifted(comb, k, new_col) ==
    [e \in DOMAIN comb |-> IF e[2] = (k + 1) % large_size THEN new_col[e[1]] ELSE comb[e]]

\* combination.col(k) = new_col
SetCol(comb, k, new_col) ==
    [e \in DOMAIN comb |-> IF e[2] = k THEN new_col[e[1]] ELSE comb[e]]

RECURSIVE InitCombinationRow(_, _, _, _, _, _)
\* the inner loop over j for one i: the entries combination(ci, cj) it
\* assigns from main(i, j)
InitCombinationRow(sel, m, i, j, cj, row) ==
    IF j >= size THEN row
    ELSE IF TestBit(sel, i) /\ TestBit(sel, j)
         THEN InitCombinationRow(sel, m, i, j + 1, cj + 1,
                                 [row EXCEPT ![cj] = m[<<i, j>>]])
         ELSE InitCombinationRow(sel, m, i, j + 1, cj, row)

RECURSIVE InitCombination(_, _, _, _, _)
\* the outer loop over i that extracts the initial combination matrix; an
\* unselected i assigns nothing
InitCombination(sel, m, i, ci, comb) ==
    IF i >= size THEN comb
    ELSE IF TestBit(sel, i)
         THEN InitCombination(sel, m, i + 1, ci + 1,
                  SetRow(comb, ci,
                         InitCombinationRow(sel, m, i, 0, 0,
                             [c \in 0..(large_size - 1) |-> Indeterminate])))
         ELSE InitCombination(sel, m, i + 1, ci, comb)

\* mutant of row_map: the row and column subscripts of m are exchanged
row_map_transposed(m, r, column_map) ==
    [c \in DOMAIN column_map |-> m[<<column_map[c], r>>]]

\* row_map(m, r, column_map): row[c] = m(r, column_map[c])
row_map(m, r, column_map) == [c \in DOMAIN column_map |-> m[<<r, column_map[c]>>]]

\* col_map(m, c, row_map): col[r] = m(row_map[r], c)
col_map(m, c, rowmap) == [r \in DOMAIN rowmap |-> m[<<rowmap[r], c>>]]

\* Eigen::MatrixXd::Random(size, size): every entry an unknown number of its
\* own, written as the pair of its subscripts
RandomMatrix == [e \in (0..(size - 1)) \X (0..(size - 1)) |-> e]

\* mutant of UpdateMaps: main_to_comb[removed] is not cleared
UpdateMaps_noclear(m2c, c2m, rem, add) ==
    LET idx == m2c[rem]
        m2  == [m2c EXCEPT ![add] = idx]
    IN  [m2c |-> m2, c2m |-> [c2m EXCEPT ![idx] = add]]

\* the index map update of one step
UpdateMaps(m2c, c2m, rem, add) ==
    LET idx == m2c[rem]
        m1  == [m2c EXCEPT ![rem] = -1]
        m2  == [m1 EXCEPT ![add] = idx]
    IN  [m2c |-> m2, c2m |-> [c2m EXCEPT ![idx] = add]]

\* mutant of RemovedOf: the operands of & ~ are exchanged
RemovedOf_swapped(sel, selected_next) == set_bit(BitAndNot(selected_next, sel))

\* Index into main matrix of removed item
RemovedOf(sel, selected_next) == set_bit(BitAndNot(sel, selected_next))

\* Index into main matrix of added item
AddedOf(sel, selected_next) == set_bit(BitAndNot(selected_next, sel))

\* eigen_sherman up to the update loop: the first combination, the index
\* maps, the initial combination matrix (its inverse is numeric and is not
\* part of the state; only its finiteness is observed, in Step).
\* some_nonfinite and visited record what the run has done so far.
InitSherman ==
    LET first == join_next(gray_join_t)
        maps  == InitMaps(first.ret, 0, 0,
                          [m2c |-> [g \in 0..(size - 1) |-> Indeterminate],
                           c2m |-> [s \in 0..(comb_size - 1) |-> Indeterminate]])
    IN  /\ main = RandomMatrix
        /\ gray_ = first.obj
        /\ selected = first.ret
        /\ visited = {first.ret}
        /\ some_nonfinite = FALSE
        /\ pc = "loop"
        /\ main_to_comb = maps.m2c
        /\ comb_to_main = maps.c2m
        /\ combination =
               InitCombination(first.ret, RandomMatrix, 0, 0,
                   [e \in (0..(large_size - 1)) \X (0..(large_size - 1)) |-> Indeterminate])
        /\ n = 1
        /\ removed = Indeterminate
        /\ added = Indeterminate
        /\ comb_swap_index = Indeterminate
        /\ success = TRUE

\* mutant of LoopCondition: the bound is one too small
LoopCondition_short(k) == k < loop_bound - 1

\* for (int n = 1; n < 35*4; ++n)
LoopCondition(k) == k < loop_bound

\* mutant of Accumulate: the flag of the last step replaces the flag so far
Accumulate_last(flag, finite) == finite

\* success = success && inverse.allFinite()
Accumulate(flag, finite) == flag /\ finite

\* one iteration of the update loop; `finite` is what inverse.allFinite()
\* returns after the two Sherman-Morrison updates of the iteration
Step(finite) ==
    /\ pc = "loop"
    /\ LoopCondition(n)
    /\ LET r             == join_next(gray_)
           selected_next == r.ret
           rem           == RemovedOf(selected, selected_next)
           add           == AddedOf(selected, selected_next)
           idx           == main_to_comb[rem]
           maps          == UpdateMaps(main_to_comb, comb_to_main, rem, add)
           new_row       == row_map(main, add, maps.c2m)
           new_col       == col_map(main, add, maps.c2m)
       IN  /\ gray_' = r.obj
           /\ removed' = rem
           /\ added' = add
           /\ comb_swap_index' = idx
           /\ main_to_comb' = maps.m2c
           /\ comb_to_main' = maps.c2m
           /\ combination' = SetCol(SetRow(combination, idx, new_row), idx, new_col)
           /\ success' = Accumulate(success, finite)
           /\ selected' = selected_next
           /\ visited' = visited \cup {selected_next}
    /\ some_nonfinite' = (some_nonfinite \/ ~finite)
    /\ n' = n + 1
    /\ UNCHANGED <<main, pc>>
    /\ UNCHANGED <<genVars, joinVars, argVars>>

ShermanStep == \E finite \in BOOLEAN : Step(finite)

\* return success, once the loop condition fails
ShermanReturn ==
    /\ pc = "loop"
    /\ ~LoopCondition(n)
    /\ pc' = "returned"
    /\ UNCHANGED <<main, gray_, selected, main_to_comb, comb_to_main, combination, n,
                   removed, added, comb_swap_index, success, some_nonfinite, visited>>
    /\ UNCHANGED <<genVars, joinVars, argVars>>

---------------------------------------------------------------------------
(* Specifications *)

\* comb_call and ctor where SpecComb and SpecCtor are not the specification
InitArgs    == comb_call = CombArgs(small_size, small_pick)
               /\ ctor = CtorArgs(small_size, small_pick)

InitGen     == InitGenObj /\ InitJoinObj /\ InitSherman /\ InitArgs
SpecGen     == InitGen /\ [][GenNext]_vars

\* next() is called without end: the caller's loop never stops calling it
SpecGenForever == InitGen /\ [][GenNextForever]_vars /\ WF_vars(GenNextForever)

InitJoin    == gen = gray_generator_t(small_size, small_pick)
               /\ hist = <<Reading([index_ |-> 0], gen)>>
               /\ InitJoinObj /\ InitSherman /\ InitArgs
SpecJoin    == InitJoin /\ [][JoinNext]_vars

NextSherman == ShermanStep \/ ShermanReturn
SpecSherman == InitJoin /\ [][NextSherman]_vars

InitComb    == gen = gray_generator_t(small_size, small_pick)
               /\ hist = <<Reading([index_ |-> 0], gen)>>
               /\ InitJoinObj /\ InitSherman /\ InitCombObj
               /\ ctor = CtorArgs(small_size, small_pick)
SpecComb    == InitComb /\ [][ReadCombinations]_vars

InitCtor    == gen = gray_generator_t(small_size, small_pick)
               /\ hist = <<Reading([index_ |-> 0], gen)>>
               /\ InitJoinObj /\ InitSherman /\ InitCtorObj
               /\ comb_call = CombArgs(small_size, small_pick)
SpecCtor    == InitCtor /\ [][Construct]_vars

---------------------------------------------------------------------------
(* Vocabulary of the properties, defined apart from the program's operators *)

\* the positions of the set bits of x (x below 2^(size+1))
BitsOf(x) == {i \in 0..size : (x \div 2^i) % 2 = 1}

\* number of set bits
Weight(x) == Cardinality(BitsOf(x))

\* number of bit positions in which x and y differ
Hamming(x, y) == Cardinality((BitsOf(x) \ BitsOf(y)) \cup (BitsOf(y) \ BitsOf(x)))

RECURSIVE Binomial(_, _)
\* C(m, k) by Pascal's rule
Binomial(m, k) ==
    IF k > m THEN 0
    ELSE IF k = 0 \/ k = m THEN 1
    ELSE Binomial(m - 1, k - 1) + Binomial(m - 1, k)

\* every sz-bit mask with pk bits set
Masks(sz, pk) == {m \in 0..(2^sz - 1) : Weight(m) = pk}

\* the readings of hist at which next() stored a new cursor, in order
Accepted == SelectSeq(hist, LAMBDA h : h.stored)

\* the calls (positions of hist) that left the direction reversed
ReversedCalls == {i \in 1..Len(hist) : hist[i].reversed}

\* the call that first flipped reversed_ to true (0 when none has yet)
FirstFlip ==
    IF ReversedCalls = {} THEN 0
    ELSE CHOOSE i \in ReversedCalls : \A k \in ReversedCalls : i <= k

\* C(size, pick) of the generator of SpecGen
GenC == Binomial(gen.size_, gen.pick_)

---------------------------------------------------------------------------
(* Properties of gray_generator_t, under SpecGen *)

\* C4: for 0 < pick < size, any two consecutive accepted values (values at
\* which next() stored the cursor), in the forward and in the reverse phase,
\* differ in exactly 2 bit positions.
C4_AcceptedHammingTwo ==
    (0 < gen.pick_ /\ gen.pick_ < gen.size_) =>
        \A i \in 1..(Len(Accepted) - 1) :
            Hamming(Accepted[i].value, Accepted[i + 1].value) = 2

\* a value has been accepted in the reverse phase and, after the flip back,
\* another one in the forward phase
C4_Witness ==
    /\ gen.size_ = 4 /\ gen.pick_ = 2
    /\ \E i \in 1..Len(hist) : \E k \in (i + 1)..Len(hist) :
           /\ hist[i].stored /\ hist[i].reversed
           /\ hist[k].stored /\ ~hist[k].reversed

\* C5: for 0 < pick < size, from construction up to the call that flips
\* reversed_ to true the generator produces exactly C(size,pick) pairwise
\* distinct values: every size-bit mask with pick bits set exactly once.
C5_ForwardEnumeratesAll ==
    (0 < gen.pick_ /\ gen.pick_ < gen.size_ /\ FirstFlip # 0) =>
        LET produced == [i \in 1..(FirstFlip - 1) |-> hist[i].value] IN
        /\ \A i \in 1..(FirstFlip - 1) : hist[i].stored
        /\ ~hist[FirstFlip].stored
        /\ FirstFlip - 1 = GenC
        /\ \A i, k \in 1..(FirstFlip - 1) : i # k => produced[i] # produced[k]
        /\ {produced[i] : i \in 1..(FirstFlip - 1)} = Masks(gen.size_, gen.pick_)

\* the forward traversal of a generator with ten combinations has just ended
C5_Witness ==
    /\ gen.size_ = 5 /\ gen.pick_ = 3
    /\ FirstFlip = Len(hist)

\* C6: for 1 <= pick <= size, in every state after construction value() is
\* below 2^size with exactly pick bits set, and index_ is within
\* 1..2^size-1.
C6_ValueHasPickBits ==
    (1 <= gen.pick_ /\ gen.pick_ <= gen.size_) =>
        /\ value(gen) < 2^(gen.size_)
        /\ Weight(value(gen)) = gen.pick_
        /\ gen.index_ \in 1..(2^(gen.size_) - 1)

\* a generator with pick = size after both kinds of direction flip
C6_Witness ==
    /\ gen.pick_ = gen.size_ /\ gen.size_ = 3
    /\ \E i \in 1..Len(hist) : \E k \in (i + 1)..Len(hist) :
           hist[i].reversed /\ ~hist[k].reversed
    /\ Weight(value(gen)) = 3

\* C7: for 0 < pick < size, after the forward traversal v1..vC the reverse
\* traversal accepts vC-1 down to v1 in that order, and then the whole
\* cycle repeats: the readings of value() have period 2*C.
C7_ReverseThenPeriodic ==
    (0 < gen.pick_ /\ gen.pick_ < gen.size_) =>
        /\ \A i \in 1..GenC : i <= Len(hist) => (hist[i].stored /\ ~hist[i].reversed)
        /\ GenC + 1 <= Len(hist) =>
               /\ ~hist[GenC + 1].stored /\ hist[GenC + 1].reversed
               /\ hist[GenC + 1].value = hist[GenC].value
        /\ \A k \in 1..(GenC - 1) : GenC + 1 + k <= Len(hist) =>
               /\ hist[GenC + 1 + k].stored /\ hist[GenC + 1 + k].reversed
               /\ hist[GenC + 1 + k].value = hist[GenC - k].value
        /\ \A i \in 1..Len(hist) : i + 2 * GenC <= Len(hist) =>
               /\ hist[i + 2 * GenC].value = hist[i].value
               /\ hist[i + 2 * GenC].reversed = hist[i].reversed

\* two full forward+reverse cycles have been played
C7_Witness ==
    /\ gen.size_ = 5 /\ gen.pick_ = 2
    /\ Len(hist) > 4 * GenC
    /\ hist[3 * GenC + 2].value = hist[GenC - 1].value

\* the readings the specification's example gives for size=4, pick=3:
\* 0111, 1011, 1101, 1110, then 1101, 1011, 0111, then the same again
ClaimedReadings == <<7, 11, 13, 14, 13, 11>>

\* the readings the code produces for size=4, pick=3: Gray order forward,
\* the flipping call leaves the value, then reverse, the flipping call
\* leaves the value again
ActualReadings == <<7, 13, 14, 11, 11, 14, 13, 7>>

\* C8 as stated: for gray_generator_t(4, 3) the readings of value() after
\* construction and after each next() are 0b0111, 0b1011, 0b1101, 0b1110,
\* then 0b1101, 0b1011, 0b0111, and then the same sequence repeats.
C8_Original ==
    (gen.size_ = 4 /\ gen.pick_ = 3) =>
        \A i \in 1..Len(hist) :
            hist[i].value = ClaimedReadings[((i - 1) % Len(ClaimedReadings)) + 1]

\* C8 amended: for gray_generator_t(4, 3) the readings are 0b0111, 0b1101,
\* 0b1110, 0b1011 (forward), 0b1011 again after the call that flips the
\* direction, then 0b1110, 0b1101, 0b0111 (reverse), 0b0111 again after
\* the call that flips back, and this sequence of 8 readings repeats.
C8_Readings ==
    (gen.size_ = 4 /\ gen.pick_ = 3) =>
        \A i \in 1..Len(hist) :
            hist[i].value = ActualReadings[((i - 1) % Len(ActualReadings)) + 1]

\* the generator (4, 3) has played its 8 readings twice
C8_Witness ==
    /\ gen.size_ = 4 /\ gen.pick_ = 3
    /\ Len(hist) >= 2 * Len(ActualReadings)

---------------------------------------------------------------------------
(* Properties of gray_generator_t under unbounded repetition, SpecGenForever *)

\* C16: for 1 <= pick <= size every call of next() (the constructor's
\* included) moves the cursor at most 2^size times, and when next() is
\* called without end the direction flips infinitely often and every
\* size-bit mask with pick bits set is the value() infinitely often.
C16_CyclesForever ==
    /\ [](/\ moves(gen) <= 2^(gen.size_)
          /\ ForwardMoves(gen, 0) <= 2^(gen.size_))
    /\ []<>(gen.reversed_)
    /\ []<>(~gen.reversed_)
    /\ \A m \in 0..(2^MaxSize - 1) :
           []<>((m < 2^(gen.size_) /\ Weight(m) = gen.pick_) => value(gen) = m)

\* a generator in its reverse phase whose next call skips cursors
C16_Witness ==
    /\ gen.size_ = 4 /\ gen.pick_ = 2
    /\ gen.reversed_
    /\ moves(gen) > 1
    /\ value(gen) = 3

---------------------------------------------------------------------------
(* Properties of gray_join_t, under SpecJoin *)

\* C1 as stated: for every sequence of gray_join_t::next() calls of any
\* length, any two consecutive return values differ in exactly 2 bit
\* positions.
C1_Original ==
    \A i \in 1..(Len(outs) - 1) : Hamming(outs[i], outs[i + 1]) = 2

\* C2: every value returned by gray_join_t::next() is an 11-bit mask with
\* exactly 7 bits set: bits 7..10 are the small generator's value at the
\* call, with exactly 3 bits set, and bits 0..6 are the large generator's
\* value at the call, with exactly 4 bits set.
C2_ReturnShape ==
    [][outs' # outs =>
         LET ret == outs'[Len(outs')] IN
         /\ ret \in 0..(2^size - 1)
         /\ Weight(ret) = small_pick + large_pick
         /\ ret \div 2^large_size = value(join.small_)
         /\ Weight(ret \div 2^large_size) = small_pick
         /\ ret % 2^large_size = value(join.large_)
         /\ Weight(ret % 2^large_size) = large_pick]_vars

\* the joiner has returned values past a full enumeration, and the last one
\* has its small part in bits 7..10 and its large part in bits 0..6
C2_Witness ==
    /\ Len(outs) > Binomial(small_size, small_pick) * Binomial(large_size, large_pick)
    /\ Weight(outs[Len(outs)] \div 2^large_size) = small_pick
    /\ Weight(outs[Len(outs)] % 2^large_size) = large_pick

\* C3: every call of gray_join_t::next() invokes large_.next(), and invokes
\* small_.next() exactly when the incremented count_ is a positive multiple
\* of 35; whenever the small generator's value changes in a call, the large
\* generator's value is unchanged by that call.
C3_Nesting ==
    [][outs' # outs =>
         /\ large_nexts' = large_nexts + 1
         /\ small_nexts' \in {small_nexts, small_nexts + 1}
         /\ (small_nexts' = small_nexts + 1) <=>
                (join'.count_ > 0
                 /\ join'.count_ % Binomial(large_size, large_pick) = 0)
         /\ join'.count_ = join.count_ + 1
         /\ (value(join'.small_) # value(join.small_)) =>
                (value(join'.large_) = value(join.large_))]_vars

\* the 35th call has just advanced the small generator to a new value
C3_Witness ==
    /\ join.count_ = Binomial(large_size, large_pick)
    /\ small_nexts = 1
    /\ large_nexts = join.count_
    /\ value(join.small_) # value(gray_join_t.small_)

---------------------------------------------------------------------------
(* Properties of eigen_sherman, under SpecSherman *)

\* the global indices that have a local slot
Mapped == {g \in 0..(size - 1) : main_to_comb[g] # -1}

\* C9: before the first step and after every step, the global indices g
\* with main_to_comb[g] != -1 are exactly the 7 set bits of `selected`, they
\* map to 7 distinct slots 0..6, comb_to_main is the exact inverse, and
\* every unselected g has main_to_comb[g] == -1.
C9_IndexMapsConsistent ==
    /\ Mapped = BitsOf(selected)
    /\ Cardinality(Mapped) = comb_size
    /\ \A g \in Mapped : main_to_comb[g] \in 0..(comb_size - 1)
    /\ \A g, h \in Mapped : g # h => main_to_comb[g] # main_to_comb[h]
    /\ \A g \in Mapped : comb_to_main[main_to_comb[g]] = g
    /\ \A s \in 0..(comb_size - 1) :
           /\ comb_to_main[s] \in 0..(size - 1)
           /\ main_to_comb[comb_to_main[s]] = s
    /\ \A g \in (0..(size - 1)) \ BitsOf(selected) : main_to_comb[g] = -1

\* all 139 steps are done and the last one moved an item into a slot
C9_Witness ==
    /\ n = loop_bound
    /\ main_to_comb[added] = comb_swap_index
    /\ comb_to_main[comb_swap_index] = added
    /\ main_to_comb[removed] = -1

\* C10: in every step, selected & ~selected_next and selected_next &
\* ~selected have exactly one set bit each; removed is the one index leaving
\* the selection and has a valid slot before the step, added is the one
\* index entering it and has no slot before the step, and they differ.
C10_SingleSwap ==
    [][n' # n =>
         /\ BitsOf(selected) \ BitsOf(selected') = {removed'}
         /\ BitsOf(selected') \ BitsOf(selected) = {added'}
         /\ main_to_comb[removed'] \in 0..(comb_size - 1)
         /\ comb_swap_index' = main_to_comb[removed']
         /\ main_to_comb[added'] = -1
         /\ removed' # added']_vars

\* a step has swapped one item of the small sub-universe (bits 7..10) for
\* another
C10_Witness ==
    /\ n > 1
    /\ removed \in large_size..(size - 1)
    /\ added \in large_size..(size - 1)
    /\ removed # added
    /\ added \in BitsOf(selected)

\* the local slots of the combination matrix
Slots == 0..(comb_size - 1)

\* C11: after initialisation and after every step, every entry of the
\* combination matrix satisfies
\* combination(i,j) == main(comb_to_main[i], comb_to_main[j]).
C11_CombinationIsExtraction ==
    \A i, j \in Slots :
        combination[<<i, j>>] = main[<<comb_to_main[i], comb_to_main[j]>>]

\* a step has replaced row and column comb_swap_index by those of `added`,
\* in a slot other than the first
C11_Witness ==
    /\ n > 1
    /\ comb_swap_index \in Slots \ {0}
    /\ combination[<<comb_swap_index, 0>>] = main[<<added, comb_to_main[0]>>]
    /\ combination[<<0, comb_swap_index>>] = main[<<comb_to_main[0], added>>]
    /\ combination[<<comb_swap_index, comb_swap_index>>] = main[<<added, added>>]

\* C15: a non-finite inverse does not abort the run: eigen_sherman returns
\* only after all 139 steps, and the flag is true if and only if
\* allFinite() was true in every step so far (so the returned flag is true
\* iff it was true in all 139 steps): once a step has made it false it
\* stays false.
C15_FlagAndContinue ==
    /\ pc = "returned" => n = loop_bound
    /\ success <=> ~some_nonfinite

\* the run has returned false after all 139 steps
C15_Witness ==
    /\ pc = "returned"
    /\ n = loop_bound
    /\ some_nonfinite
    /\ ~success

\* every pair of a 3-of-4 mask in bits 7..10 and a 4-of-7 mask in bits 0..6
AllPairs ==
    {ShiftLeft(s, large_size) + l :
        s \in Masks(small_size, small_pick), l \in Masks(large_size, large_pick)}

\* C17: the combinations eigen_sherman processes (the first 140 values of a
\* fresh gray_join_t: one initial, one per step) are pairwise distinct
\* pairs of a 3-of-4 mask and a 4-of-7 mask, and after the 139 steps every
\* such pair has been visited, each exactly once.
C17_VisitsEveryCombinationOnce ==
    /\ Cardinality(visited) = n
    /\ visited \subseteq AllPairs
    /\ n = loop_bound => visited = AllPairs
    /\ Cardinality(AllPairs) = loop_bound

\* the run is complete and 140 different combinations were selected
C17_Witness ==
    /\ n = loop_bound
    /\ Cardinality(visited) = loop_bound
    /\ selected \in visited

\* C18: one step changes only main_to_comb[removed], main_to_comb[added]
\* and comb_to_main[slot] (slot = old main_to_comb[removed]) of the index
\* maps, and only row `slot` and column `slot` of the combination matrix;
\* the matrix `main` is never modified.
C18_StepFrame ==
    [][n' # n =>
         LET slot == main_to_comb[removed'] IN
         /\ \A g \in (0..(size - 1)) \ {removed', added'} :
                main_to_comb'[g] = main_to_comb[g]
         /\ \A k \in Slots \ {slot} : comb_to_main'[k] = comb_to_main[k]
         /\ \A i, j \in Slots \ {slot} :
                combination'[<<i, j>>] = combination[<<i, j>>]
         /\ main' = main]_vars

\* a step has changed the three map entries and a row of the matrix, and an
\* entry outside row and column comb_swap_index still holds its initial value
C18_Witness ==
    /\ n > 1
    /\ main_to_comb[removed] = -1
    /\ main_to_comb[added] = comb_swap_index
    /\ comb_to_main[comb_swap_index] = added
    /\ comb_swap_index \in Slots \ {0}
    /\ combination[<<0, 0>>] = main[<<0, 0>>]
    /\ combination[<<comb_swap_index, 0>>] = main[<<added, 0>>]

---------------------------------------------------------------------------
\* C13: combinations() returns C(size, pick) for every 1 <= pick <= size
\* (as claimed; 13! does not fit uint32_t, and from size 13 on it does not)
C13_Original ==
    comb_call.called => comb_call.result = Binomial(comb_call.size, comb_call.pick)

---------------------------------------------------------------------------
\* C14: with invalid parameters (pick > size, or pick = 0 with size > 0)
\* construction never completes leaving an object whose value() does not
\* have pick bits set (as claimed; where the division by 0 does not trap,
\* it does)
InvalidParameters(sz, pk) == pk > sz \/ (pk = 0 /\ sz > 0)

C14_Original ==
    (InvalidParameters(ctor.size, ctor.pick) /\ ctor.phase = "constructed")
        => Weight(value(ctor.obj)) = ctor.pick

===========================================================================
